---- MODULE Spec2Model ----
(***************************************************************************)
(* Campaign / job lifecycle of the lead-generation orchestrator:           *)
(* the campaign service (app/services/campaign.py), the Celery tasks       *)
(* (app/workers/campaign_tasks.py), the job endpoints                      *)
(* (app/api/endpoints/jobs.py) and the queue-management endpoints          *)
(* (app/api/endpoints/queue_management.py).                                *)
(*                                                                         *)
(* Rows of the relational store are functions from ids to records; every   *)
(* request and every task execution is a process with its own position,    *)
(* because API replicas and Celery workers run concurrently and coordinate *)
(* only through the store and the task queue.                              *)
(***************************************************************************)
EXTENDS Integers, FiniteSets, Sequences, Bags, TLC

\* ------------------------------------------------------------------ bounds
MaxJobs == 2          \* job rows that can be inserted
MaxReq == 2           \* start_campaign requests in flight at once
MaxExec == 2          \* task executions in flight at once
MaxRedeliver == 1     \* re-deliveries of a queued task by the broker
MaxTaskRuns == 2      \* deliveries of the campaign_tasks tasks
MaxRuns == 2          \* executions started for one job
MaxQueued == 2        \* messages waiting in the task queue for one job
MaxFailures == 3      \* failures counted by one circuit breaker
MaxCalls == 1         \* service calls in flight
MaxLeads == 1         \* leads one fetch returns
MaxAge == 2           \* days a job row ages
MaxRecords == 3       \* records of the mock dataset
MaxCallers == 2       \* get_next_campaign_data calls between two resets

CampaignIds == {"c1"}
JobIds == 1..MaxJobs

\* an id with no row in the table
NoCampaign == [status |-> "NONE", totalRecords |-> 0, url |-> [prefix |-> FALSE, badchars |-> FALSE],
               status_error |-> FALSE, createdTotal |-> 0, updated |-> FALSE, paused_by |-> "-",
               reason |-> "-"]
NoJob == [status |-> "NONE", campaign |-> "-", name |-> "-", task_id |-> "-",
          error |-> FALSE, completed_at |-> FALSE, paused_by |-> "-", result |-> 0,
          age |-> 0]
\* the mock dataset (smoke_tests/mock_apify_client.py): _CONSUMED_INDICES, and
\* for each call of get_next_campaign_data the leads_count it asked for, the
\* indices it found (at "found") and the indices it returned (at "returned")
Records == 0..(MaxRecords - 1)
Callers == 1..MaxCallers
NoMockCall == [pc |-> "idle", count |-> 0, indices |-> {}]
NoneConsumed == [consumed |-> {}, call |-> [k \in Callers |-> NoMockCall]]
\* no cleanup in flight; one in flight holds the campaign, the cutoff, the
\* jobs its query returned and whether it runs as the task
NoCleanup == [c |-> "-", days |-> 0, sel |-> {}, task |-> FALSE, on |-> FALSE]
\* the task queue holds, for a job, the messages waiting for a worker (n) and
\* whether one was handed to a worker and can be handed out again (out)
NoTask == [n |-> 0, out |-> FALSE]

\* ------------------------------------------------------------ enumerations
\* CampaignStatus; PAUSED is the side-state of the campaign lifecycle
CampaignStatus == {"CREATED", "RUNNING", "COMPLETED", "FAILED"}
PAUSED == "PAUSED"
\* JobStatus
JobStatus == {"PENDING", "PROCESSING", "COMPLETED", "FAILED", "CANCELLED"}

\* totalRecords values a CampaignCreate / CampaignUpdate accepts (ge=0)
TotalRecordsValues == {0, 1000, 1001}

\* urls a CampaignCreate accepts (min_length=1), by what the validator reads
UrlApollo == [prefix |-> TRUE, badchars |-> FALSE]    \* https://app.apollo.io/search
UrlBadChars == [prefix |-> TRUE, badchars |-> TRUE]   \* https://app.apollo.io/<x>
UrlOther == [prefix |-> FALSE, badchars |-> FALSE]    \* https://test.com
Urls == {UrlApollo, UrlBadChars, UrlOther}

\* the parameters campaigns are created with: every count with the valid url,
\* every url with a valid count
CreateInputs == {<<t, UrlApollo>> : t \in TotalRecordsValues} \cup {<<1000, u>> : u \in Urls}

\* ThirdPartyService, as the values of its wire strings (two of the services)
ThirdPartyService == {"apollo", "openai"}
\* service names a ServicePauseRequest / ServiceResumeRequest can carry
ServiceNames == {"apollo", "APOLLO", "openai", "invalid_service"}

\* no fetch of the job has taken the success path
NoFetch == [done |-> FALSE, n |-> 0, dataset |-> FALSE]

\* a breaker record as it is created: CLOSED, no failures counted; cooled
\* tells that the cool-down since opened_at has elapsed, probes counts the
\* calls let through in HALF_OPEN, streak the record_failure calls since the
\* last reset of failure_count
ClosedBreaker == [state |-> "CLOSED", manual_override |-> FALSE, failure_count |-> 0,
                  cooled |-> FALSE, probes |-> 0, streak |-> 0]
\* failure_threshold and the probe quota of HALF_OPEN
FailureThreshold == 2
ProbeQuota == 2

\* a rate limiter at the start of a window: used is the counter in the shared
\* store, granted counts the acquire() calls that returned true in the window
NewWindow == [used |-> 0, granted |-> 0]
\* max_requests of the limiter of a service
max_requests(s) == IF s = "apollo" THEN 1 ELSE 2

\* the outcome of a service call: whether a limiter operation raised, whether
\* acquire() returned false, what became of the remote call, what was returned
NoCall == [svc |-> "-", err |-> FALSE, rejected |-> FALSE, remote |-> "none", result |-> "-"]

VARIABLES campaigns, jobs, nextJobId, queue, breaker, req, exec, reply,
          runs, enq, redelivered, taskRuns, limiter, calls, last, handler_errors,
          jobs_paused, cleaning, mock, fetches

vars == <<campaigns, jobs, nextJobId, queue, breaker, req, exec, reply,
          runs, enq, redelivered, taskRuns, limiter, calls, last, handler_errors,
          jobs_paused, cleaning, mock, fetches>>

\* the error log of the notifications of event handlers, the jobs_paused of
\* the last result of a bulk pause, the cleanup in flight, and the mock
\* dataset of the scraper client
aux == <<handler_errors, jobs_paused, cleaning, mock, fetches>>

\* the rate limiters, the service calls in flight and the outcome of the
\* service call that returned last
svc == <<limiter, calls, last>>

\* the rows, the task queue and the circuit breaker records
store == <<campaigns, jobs, nextJobId, queue, breaker>>

\* ------------------------------------------------------------- validators
validate_search_url(url) == url.prefix /\ ~url.badchars

validate_count_lax(count) == ~(count < 0) /\ ~(count > 1000)

validate_count(count) == ~(count <= 0) /\ ~(count > 1000)

\* --------------------------------------------------- Campaign.update_status
ValidTransitions ==
  [s \in CampaignStatus \cup {PAUSED} |->
     CASE s = "CREATED" -> {"RUNNING"}
       [] s = "RUNNING" -> {"COMPLETED", "FAILED", PAUSED}
       [] s = PAUSED -> {"RUNNING"}
       [] OTHER -> {}]

is_valid_transition(old, new) == new \in ValidTransitions[old]

\* the row after update_status(new) on an object whose loaded status is valid
update_status(row, new, isError) ==
  [row EXCEPT !.status = new,
              !.status_error = IF isError THEN TRUE ELSE @]

\* the requests and the task executions in flight are bags of positions:
\* a start_campaign request at pc for campaign c with its job j, an execution
\* of task kind for job j of campaign c holding the campaign status it loaded
ReqAt(pc, c, j) == [pc |-> pc, c |-> c, j |-> j]
ExecOf(kind, j, c, seen) == [kind |-> kind, j |-> j, c |-> c, seen |-> seen]
Put(bag, x) == bag (+) SetToBag({x})
Take(bag, x) == bag (-) SetToBag({x})

\* the HTTP response a step sends or the value a call returns; NoReply for a
\* step that sends none
Reply(op, id, code, detail) == [op |-> op, id |-> id, code |-> code, detail |-> detail]
NoReply == Reply("-", "-", 0, "-")

\* a worker is free to take a task
FreeExec == BagCardinality(exec) < MaxExec

Init ==
  /\ campaigns = [c \in CampaignIds |-> NoCampaign]
  /\ jobs = [j \in JobIds |-> NoJob]
  /\ nextJobId = 1
  /\ queue = [j \in JobIds |-> NoTask]
  /\ breaker = [s \in ThirdPartyService |-> ClosedBreaker]
  /\ req = EmptyBag
  /\ exec = EmptyBag
  /\ reply = NoReply
  /\ runs = [j \in JobIds |-> 0]
  /\ enq = [c \in CampaignIds |-> 0]
  /\ redelivered = 0
  /\ taskRuns = 0
  /\ limiter = [s \in ThirdPartyService |-> NewWindow]
  /\ calls = EmptyBag
  /\ last = NoCall
  /\ handler_errors = FALSE
  /\ jobs_paused = 0
  /\ cleaning = NoCleanup
  /\ mock = NoneConsumed
  /\ fetches = [j \in JobIds |-> NoFetch]

\* ---------------------------------------------------------- create_campaign
create_campaign(c, total, url) ==
  /\ campaigns[c] = NoCampaign
  /\ campaigns' = [campaigns EXCEPT ![c] =
       [status |-> "CREATED", totalRecords |-> total, url |-> url,
        status_error |-> FALSE, createdTotal |-> total, updated |-> FALSE,
        paused_by |-> "-", reason |-> "-"]]
  /\ reply' = Reply("create_campaign", c, 201, "-")
  /\ UNCHANGED <<jobs, nextJobId, queue, req, exec, runs, enq, redelivered, taskRuns, breaker>>
  /\ UNCHANGED <<svc, aux>>

\* ---------------------------------------------------------- update_campaign
\* setattr of the one provided field (status, totalRecords or url)
update_campaign(c, field, value) ==
  /\ IF campaigns[c] = NoCampaign
     THEN /\ reply' = Reply("update_campaign", c, 404, "-")
          /\ UNCHANGED campaigns
     ELSE /\ campaigns' = [campaigns EXCEPT ![c] =
               CASE field = "status" -> [@ EXCEPT !.status = value, !.updated = TRUE]
                 [] field = "totalRecords" -> [@ EXCEPT !.totalRecords = value, !.updated = TRUE]
                 [] field = "url" -> [@ EXCEPT !.url = value, !.updated = TRUE]]
          /\ reply' = Reply("update_campaign", c, 200, "-")
  /\ UNCHANGED <<jobs, nextJobId, queue, req, exec, runs, enq, redelivered, taskRuns, breaker>>
  /\ UNCHANGED <<svc, aux>>

\* ----------------------------------------------------------- start_campaign
not_startable_unless_failed(status) == status \notin {"CREATED", "FAILED"}

\* line 200: only a CREATED campaign is started
not_startable(status) == status # "CREATED"

\* lines 192-209: load the campaign, reject unless CREATED, validate url and count
start_campaign_check(n, c) ==
  /\ BagCardinality(req) < n
  /\ LET row == campaigns[c] IN
     IF row = NoCampaign
     THEN /\ reply' = Reply("start_campaign", c, 404, "not_found")
          /\ UNCHANGED req
     ELSE IF not_startable(row.status)
     THEN /\ reply' = Reply("start_campaign", c, 400, "status")
          /\ UNCHANGED req
     ELSE IF ~validate_search_url(row.url)
     THEN /\ reply' = Reply("start_campaign", c, 400, "url")
          /\ UNCHANGED req
     ELSE IF ~validate_count(row.totalRecords)
     THEN /\ reply' = Reply("start_campaign", c, 400, "count")
          /\ UNCHANGED req
     ELSE /\ req' = Put(req, ReqAt("validated", c, 0))
          /\ reply' = NoReply
  /\ UNCHANGED <<campaigns, jobs, nextJobId, queue, exec, runs, enq, redelivered, taskRuns, breaker>>
  /\ UNCHANGED <<svc, aux>>

\* lines 211-213: update_status(RUNNING) on the object loaded by the check
\* (its status is CREATED there), committed as an UPDATE of the row
start_campaign_commit_running(q) ==
  /\ BagIn(q, req)
  /\ q.pc = "validated"
  /\ campaigns' = [campaigns EXCEPT ![q.c] = update_status(@, "RUNNING", FALSE)]
  /\ req' = Put(Take(req, q), ReqAt("running", q.c, 0))
  /\ reply' = NoReply
  /\ UNCHANGED <<jobs, nextJobId, queue, exec, runs, enq, redelivered, taskRuns, breaker>>
  /\ UNCHANGED <<svc, aux>>

\* lines 249-265: rollback, reload the campaign, update_status(FAILED);
\* an invalid transition raises inside the inner try and is only logged
start_campaign_failed(c) ==
  IF campaigns[c] # NoCampaign /\ is_valid_transition(campaigns[c].status, "FAILED")
  THEN [campaigns EXCEPT ![c] = update_status(@, "FAILED", TRUE)]
  ELSE campaigns

\* lines 223-232: insert the FETCH_LEADS job in PENDING
start_campaign_create_job(q, raises) ==
  /\ BagIn(q, req)
  /\ q.pc = "running"
  /\ IF raises
     THEN /\ campaigns' = start_campaign_failed(q.c)
          /\ req' = Take(req, q)
          /\ reply' = Reply("start_campaign", q.c, 500, "error")
          /\ UNCHANGED <<jobs, nextJobId>>
     ELSE /\ nextJobId <= MaxJobs
          /\ jobs' = [jobs EXCEPT ![nextJobId] =
               [status |-> "PENDING", campaign |-> q.c, name |-> "FETCH_LEADS",
                task_id |-> "-", error |-> FALSE, completed_at |-> FALSE, paused_by |-> "-",
                age |-> 0]]
          /\ nextJobId' = nextJobId + 1
          /\ req' = Put(Take(req, q), ReqAt("job_created", q.c, nextJobId))
          /\ reply' = NoReply
          /\ UNCHANGED campaigns
  /\ UNCHANGED <<queue, exec, runs, enq, redelivered, taskRuns, breaker>>
  /\ UNCHANGED <<svc, aux>>

\* lines 236-245: fetch_and_save_leads.delay(...), store the task id, reply
start_campaign_enqueue(q, raises) ==
  /\ BagIn(q, req)
  /\ q.pc = "job_created"
  /\ IF raises
     THEN /\ campaigns' = start_campaign_failed(q.c)
          /\ reply' = Reply("start_campaign", q.c, 500, "error")
          /\ UNCHANGED <<jobs, queue, enq, breaker>>
     ELSE /\ queue' = [queue EXCEPT ![q.j].n = @ + 1]
          /\ enq' = [enq EXCEPT ![q.c] = @ + 1]
          /\ jobs' = [jobs EXCEPT ![q.j].task_id = "fetch_and_save_leads"]
          /\ reply' = Reply("start_campaign", q.c, 200, "started")
          /\ UNCHANGED campaigns
  /\ req' = Take(req, q)
  /\ UNCHANGED <<nextJobId, exec, runs, redelivered, taskRuns, breaker>>
  /\ UNCHANGED <<svc, aux>>

\* --------------------------------------------------------------- task queue
\* the broker delivers at least once: a task it already handed to a worker
\* may be handed out again
redeliver(j) ==
  /\ queue[j].out
  /\ redelivered < MaxRedeliver
  /\ queue' = [queue EXCEPT ![j] = [n |-> @.n + 1, out |-> FALSE]]
  /\ redelivered' = redelivered + 1
  /\ reply' = NoReply
  /\ UNCHANGED <<campaigns, jobs, nextJobId, req, exec, runs, enq, taskRuns, breaker>>
  /\ UNCHANGED <<svc, aux>>

\* ------------------------------------- fetch_and_save_leads (services/campaign.py)
\* lines 489-498: load the job, set PROCESSING and the task id, commit
fetch_and_save_leads_claim(j) ==
  /\ FreeExec
  /\ queue[j].n > 0
  /\ jobs[j] # NoJob
  /\ runs[j] < MaxRuns
  /\ queue' = [queue EXCEPT ![j] = [n |-> @.n - 1, out |-> TRUE]]
  /\ jobs' = [jobs EXCEPT ![j].status = "PROCESSING", ![j].task_id = "fetch_and_save_leads"]
  /\ exec' = Put(exec, ExecOf("fetch_and_save_leads", j, jobs[j].campaign, "-"))
  /\ runs' = [runs EXCEPT ![j] = @ + 1]
  /\ reply' = NoReply
  /\ UNCHANGED <<campaigns, nextJobId, req, enq, redelivered, taskRuns, breaker>>
  /\ UNCHANGED <<svc, aux>>

\* what ApolloService() / fetch_leads(job_params, campaign_id, db) can do:
\* return the leads it saved, return a rate-limited result with count 0,
\* be unimportable (ImportError, count 0), or raise: on a timeout or an error
\* of the remote service (transient), or on malformed parameters (validation)
FetchResults == {"leads", "rate_limited", "import_error", "transient", "validation"}
\* the results that are exceptions
Raises == {"transient", "validation"}

\* the job row as the except block leaves it
JobFailed(row) == [row EXCEPT !.status = "FAILED", !.error = TRUE, !.completed_at = TRUE]
\* the job row as the success path leaves it
JobCompleted(row) == [row EXCEPT !.status = "COMPLETED", !.completed_at = TRUE]
\* what the fetch that took the success path last left of its result:
\* result.get('count', 0), and whether it is a dataset the scraper returned
Fetched(n, dataset) == [done |-> TRUE, n |-> n, dataset |-> dataset]
\* result.get('count', 0) for each result: the leads saved, or 0
Counts(result) == IF result = "leads" THEN 0..MaxLeads ELSE {0}

\* lines 531-544: the except block; update_status raises on an invalid
\* transition, the commit is then never reached and close() rolls back
fetch_and_save_leads_except(j, c) ==
  IF campaigns[c] = NoCampaign
  THEN <<campaigns, [jobs EXCEPT ![j] = JobFailed(@)]>>
  ELSE IF is_valid_transition(campaigns[c].status, "FAILED")
  THEN <<[campaigns EXCEPT ![c] = update_status(@, "FAILED", TRUE)],
         [jobs EXCEPT ![j] = JobFailed(@)]>>
  ELSE <<campaigns, jobs>>

\* lines 509-522: job COMPLETED, campaign reloaded and update_status(COMPLETED)
fetch_and_save_leads_success(j, c) ==
  IF campaigns[c] = NoCampaign
  THEN <<campaigns, [jobs EXCEPT ![j] = JobCompleted(@)]>>
  ELSE IF is_valid_transition(campaigns[c].status, "COMPLETED")
  THEN <<[campaigns EXCEPT ![c] = update_status(@, "COMPLETED", FALSE)],
         [jobs EXCEPT ![j] = JobCompleted(@)]>>
  ELSE fetch_and_save_leads_except(j, c)

\* lines 500-547: the call of the service, then the success path or the except block
fetch_and_save_leads_run(e, result) ==
  /\ BagIn(e, exec)
  /\ e.kind = "fetch_and_save_leads"
  /\ LET out == IF jobs[e.j] = NoJob
                THEN <<campaigns, jobs>>
                ELSE IF result \in Raises
                THEN fetch_and_save_leads_except(e.j, e.c)
                ELSE fetch_and_save_leads_success(e.j, e.c)
     IN /\ campaigns' = out[1]
        /\ jobs' = out[2]
  /\ exec' = Take(exec, e)
  /\ reply' = NoReply
  /\ UNCHANGED <<nextJobId, queue, req, runs, enq, redelivered, taskRuns, breaker>>

\* the task, whatever its result holds
fetch_and_save_leads_finish(e, result) ==
  /\ fetch_and_save_leads_run(e, result)
  /\ UNCHANGED <<svc, aux>>

\* the task, with the result it took the success path with put on record
fetch_and_save_leads_finish_counted(e, result, n) ==
  /\ fetch_and_save_leads_run(e, result)
  /\ fetches' = IF jobs[e.j] # NoJob /\ result \notin Raises
                THEN [fetches EXCEPT ![e.j] = Fetched(n, result = "leads")]
                ELSE fetches
  /\ UNCHANGED <<svc, mock, handler_errors, jobs_paused, cleaning>>

\* ------------------------------ fetch_and_save_leads_task (workers/campaign_tasks.py)
\* lines 27-42: load the job, set PROCESSING, commit, then load the campaign;
\* the campaign object loaded here is the one the task keeps to its end
fetch_and_save_leads_task_claim(j) ==
  /\ FreeExec
  /\ taskRuns < MaxTaskRuns
  /\ jobs[j] = NoJob \/ jobs[j].name = "FETCH_LEADS"
  /\ runs[j] < MaxRuns
  /\ taskRuns' = taskRuns + 1
  /\ reply' = NoReply
  /\ IF jobs[j] = NoJob
     THEN UNCHANGED <<jobs, exec, runs, breaker>>
     ELSE IF campaigns[jobs[j].campaign] = NoCampaign
     THEN /\ jobs' = [jobs EXCEPT ![j] = JobFailed([@ EXCEPT !.task_id = "fetch_and_save_leads_task"])]
          /\ runs' = [runs EXCEPT ![j] = @ + 1]
          /\ UNCHANGED exec
     ELSE /\ jobs' = [jobs EXCEPT ![j].status = "PROCESSING",
                                  ![j].task_id = "fetch_and_save_leads_task"]
          /\ exec' = Put(exec, ExecOf("fetch_and_save_leads_task", j, jobs[j].campaign,
                                      campaigns[jobs[j].campaign].status))
          /\ runs' = [runs EXCEPT ![j] = @ + 1]
  /\ UNCHANGED <<campaigns, nextJobId, queue, req, enq, redelivered, breaker>>
  /\ UNCHANGED <<svc, aux>>

\* lines 54-95: ApolloService is unimportable and the mock result is used, or
\* the constructor or the fetch_leads(url=, count=, campaign_id=) call raises
TaskFetchResults == {"import_error", "raise"}

\* lines 131-145: the except block, on the campaign object loaded at line 40
\* whose status is seen; the commit writes the changed columns of both rows
fetch_and_save_leads_task_except(j, c, seen) ==
  IF is_valid_transition(seen, "FAILED")
  THEN <<[campaigns EXCEPT ![c] = update_status(@, "FAILED", TRUE)],
         [jobs EXCEPT ![j] = JobFailed(@)]>>
  ELSE <<campaigns, jobs>>

\* lines 106-119: through RUNNING first when the loaded status is CREATED
fetch_and_save_leads_task_success(j, c, seen) ==
  LET viaRunning == IF seen = "CREATED" THEN "RUNNING" ELSE seen IN
  IF is_valid_transition(viaRunning, "COMPLETED")
  THEN <<[campaigns EXCEPT ![c] = update_status(@, "COMPLETED", FALSE)],
         [jobs EXCEPT ![j] = JobCompleted(@)]>>
  ELSE fetch_and_save_leads_task_except(j, c, viaRunning)

\* lines 54-148: the call of the service, then the success path or the except block
fetch_and_save_leads_task_finish(e, result) ==
  /\ BagIn(e, exec)
  /\ e.kind = "fetch_and_save_leads_task"
  /\ LET out == IF result = "raise"
                THEN fetch_and_save_leads_task_except(e.j, e.c, e.seen)
                ELSE fetch_and_save_leads_task_success(e.j, e.c, e.seen)
     IN /\ campaigns' = out[1]
        /\ jobs' = out[2]
  /\ exec' = Take(exec, e)
  /\ reply' = NoReply
  /\ UNCHANGED <<nextJobId, queue, req, runs, enq, redelivered, taskRuns, breaker>>
  /\ UNCHANGED <<svc, aux>>

\* ----------------------------- process_campaign_leads_task (workers/campaign_tasks.py)
\* lines 255-273: load the campaign, insert the tracking job in PROCESSING
process_campaign_leads_task_start(c) ==
  /\ FreeExec
  /\ taskRuns < MaxTaskRuns
  /\ taskRuns' = taskRuns + 1
  /\ reply' = NoReply
  /\ IF campaigns[c] = NoCampaign
     THEN UNCHANGED <<jobs, nextJobId, exec>>
     ELSE /\ nextJobId <= MaxJobs
          /\ jobs' = [jobs EXCEPT ![nextJobId] =
               [status |-> "PROCESSING", campaign |-> c, name |-> "PROCESS_LEADS_ENRICHMENT",
                task_id |-> "process_campaign_leads_task", error |-> FALSE,
                completed_at |-> FALSE, paused_by |-> "-", age |-> 0]]
          /\ nextJobId' = nextJobId + 1
          /\ exec' = Put(exec, ExecOf("process_campaign_leads_task", nextJobId, c, "-"))
  /\ UNCHANGED <<campaigns, queue, req, runs, enq, redelivered, breaker>>
  /\ UNCHANGED <<svc, aux>>

process_campaign_leads_task_rows_propagating(j, c, raises) ==
  <<IF raises THEN [campaigns EXCEPT ![c] = update_status(@, "FAILED", TRUE)] ELSE campaigns,
    [jobs EXCEPT ![j] = IF raises THEN JobFailed(@) ELSE JobCompleted(@)]>>

\* the rows after lines 322-326 (no exception) or lines 338-348 (an exception):
\* only the tracking job is written
process_campaign_leads_task_rows(j, c, raises) ==
  <<campaigns, [jobs EXCEPT ![j] = IF raises THEN JobFailed(@) ELSE JobCompleted(@)]>>

\* lines 275-351
process_campaign_leads_task_finish(e, raises) ==
  /\ BagIn(e, exec)
  /\ e.kind = "process_campaign_leads_task"
  /\ LET out == process_campaign_leads_task_rows(e.j, e.c, raises)
     IN /\ campaigns' = out[1]
        /\ jobs' = out[2]
  /\ exec' = Take(exec, e)
  /\ reply' = NoReply
  /\ UNCHANGED <<nextJobId, queue, req, runs, enq, redelivered, taskRuns, breaker>>
  /\ UNCHANGED <<svc, aux>>

\* --------------------------------------------------- cancel_job (endpoints/jobs.py)
\* celery_app.control.revoke(task_id, terminate=True) reaches the workers or
\* not: when it does, the queued task is discarded and a running execution of
\* that task is terminated
Revoked(j, tid, e) == e.j = j /\ e.kind = tid

cancel_job(j, revoked) ==
  /\ IF jobs[j] = NoJob
     THEN /\ reply' = Reply("cancel_job", "-", 404, "not_found")
          /\ UNCHANGED <<jobs, queue, exec>>
     ELSE IF jobs[j].status \notin {"PENDING", "PROCESSING"}
     THEN /\ reply' = Reply("cancel_job", "-", 400, "status")
          /\ UNCHANGED <<jobs, queue, exec>>
     ELSE /\ IF jobs[j].task_id # "-" /\ revoked
             THEN /\ exec' = [e \in {x \in BagToSet(exec) : ~Revoked(j, jobs[j].task_id, x)} |->
                              exec[e]]
                  /\ queue' = IF jobs[j].task_id = "fetch_and_save_leads"
                              THEN [queue EXCEPT ![j] = NoTask] ELSE queue
             ELSE UNCHANGED <<queue, exec>>
          /\ jobs' = [jobs EXCEPT ![j].status = "CANCELLED"]
          /\ reply' = Reply("cancel_job", "-", 200, "cancelled")
  /\ UNCHANGED <<campaigns, nextJobId, req, runs, enq, redelivered, taskRuns, breaker>>
  /\ UNCHANGED <<svc, aux>>

\* ------------------------------------------- jobs (endpoints/jobs.py, workers/tasks.py)
\* POST /jobs (lines 12-36): a job of no campaign, PENDING, queued for process_job
create_job ==
  /\ nextJobId <= MaxJobs
  /\ jobs' = [jobs EXCEPT ![nextJobId] =
               [NoJob EXCEPT !.status = "PENDING", !.name = "JOB", !.task_id = "process_job"]]
  /\ nextJobId' = nextJobId + 1
  /\ reply' = Reply("create_job", "-", 201, "created")
  /\ UNCHANGED <<campaigns, queue, breaker, req, exec, runs, enq, redelivered, taskRuns>>
  /\ UNCHANGED <<svc, aux>>

\* process_job(job_id): the job is taken, PENDING -> PROCESSING
process_job_claim(j) ==
  /\ jobs[j].name = "JOB"
  /\ jobs[j].status = "PENDING"
  /\ jobs' = [jobs EXCEPT ![j].status = "PROCESSING"]
  /\ reply' = NoReply
  /\ UNCHANGED <<campaigns, nextJobId, queue, breaker, req, exec, runs, enq, redelivered,
                 taskRuns>>
  /\ UNCHANGED <<svc, aux>>

\* process_job(job_id): the job ends, PROCESSING -> COMPLETED or FAILED
process_job_finish(j, ok) ==
  /\ jobs[j].name = "JOB"
  /\ jobs[j].status = "PROCESSING"
  /\ jobs' = [jobs EXCEPT ![j] = IF ok THEN JobCompleted(@) ELSE JobFailed(@)]
  /\ reply' = NoReply
  /\ UNCHANGED <<campaigns, nextJobId, queue, breaker, req, exec, runs, enq, redelivered,
                 taskRuns>>
  /\ UNCHANGED <<svc, aux>>

\* ----------------------- cleanup (services/campaign.py, workers/campaign_tasks.py)
\* a day passes: created_at of every row is a day further back
day_passes ==
  /\ \E j \in JobIds : jobs[j] # NoJob /\ jobs[j].age < MaxAge
  /\ jobs' = [j \in JobIds |-> IF jobs[j] # NoJob /\ jobs[j].age < MaxAge
                               THEN [jobs[j] EXCEPT !.age = @ + 1] ELSE jobs[j]]
  /\ reply' = NoReply
  /\ UNCHANGED <<campaigns, nextJobId, queue, breaker, req, exec, runs, enq, redelivered,
                 taskRuns>>
  /\ UNCHANGED <<svc, aux>>

\* the query: campaign_id == campaign_id, created_at < utcnow() - days,
\* status in (COMPLETED, FAILED)
Expired(js, c, days) ==
  {j \in JobIds : /\ js[j].campaign = c
                  /\ js[j].age > days
                  /\ js[j].status \in {"COMPLETED", "FAILED"}}

\* POST /campaigns/{id}/cleanup (endpoints/campaigns.py 143-170, services
\* 337-359) and cleanup_campaign_jobs_task (lines 151-199), up to the query
cleanup_campaign_jobs_query(c, days, task) ==
  /\ ~cleaning.on
  /\ IF ~task /\ days <= 0
     THEN /\ reply' = Reply("cleanup_campaign_jobs", c, 400, "days")
          /\ UNCHANGED cleaning
     ELSE IF campaigns[c] = NoCampaign
     THEN /\ reply' = IF task THEN NoReply ELSE Reply("cleanup_campaign_jobs", c, 404, "not_found")
          /\ UNCHANGED cleaning
     ELSE /\ cleaning' = [c |-> c, days |-> days, sel |-> Expired(jobs, c, days),
                          task |-> task, on |-> TRUE]
          /\ reply' = NoReply
  /\ UNCHANGED <<store, req, exec, runs, enq, redelivered, taskRuns>>
  /\ UNCHANGED <<svc, fetches, mock, handler_errors, jobs_paused>>

\* services 361-372 and task 212-230: the rows of the query are deleted by
\* their ids and the deletion is committed; the task revokes their tasks first
cleanup_campaign_jobs_delete(revoked) ==
  LET gone == cleaning.sel
      stopped == IF cleaning.task /\ revoked
                 THEN {j \in gone : jobs[j] # NoJob /\ jobs[j].task_id # "-"} ELSE {}
  IN /\ cleaning.on
     /\ jobs' = [j \in JobIds |-> IF j \in gone THEN NoJob ELSE jobs[j]]
     /\ exec' = LET keep == {x \in BagToSet(exec) :
                              \A j \in stopped : ~Revoked(j, jobs[j].task_id, x)}
                IN [e \in keep |-> exec[e]]
     /\ queue' = [j \in JobIds |-> IF j \in stopped /\ jobs[j].task_id = "fetch_and_save_leads"
                                   THEN NoTask ELSE queue[j]]
     /\ cleaning' = NoCleanup
     /\ reply' = IF cleaning.task THEN NoReply
                 ELSE Reply("cleanup_campaign_jobs", cleaning.c, 200, "deleted")
     /\ UNCHANGED <<campaigns, nextJobId, breaker, req, runs, enq, redelivered, taskRuns>>
     /\ UNCHANGED <<svc, fetches, mock, handler_errors, jobs_paused>>

\* -------------------------------- mock dataset (smoke_tests/mock_apify_client.py)
\* lines 58-78: the first count indices of the dataset that are not consumed
get_next_available_indices(consumed, count) ==
  LET free == Records \ consumed IN
  {i \in free : Cardinality({h \in free : h < i}) < count}

\* get_next_campaign_data (lines 80-86): the indices are looked up in a copy
\* of _CONSUMED_INDICES
get_next_campaign_data_find(k, count) ==
  /\ mock.call[k].pc = "idle"
  /\ mock' = [mock EXCEPT !.call[k] =
       [pc |-> "found", count |-> count,
        indices |-> get_next_available_indices(mock.consumed, count)]]
  /\ reply' = NoReply
  /\ UNCHANGED <<store, req, exec, runs, enq, redelivered, taskRuns>>
  /\ UNCHANGED <<svc, fetches, handler_errors, jobs_paused, cleaning>>

\* lines 87-113: none found, [] is returned; else mark_indices_consumed
\* (lines 51-56) and the records of the indices are returned
get_next_campaign_data_return(k) ==
  /\ mock.call[k].pc = "found"
  /\ mock' = [mock EXCEPT !.consumed = @ \cup mock.call[k].indices,
                           !.call[k].pc = "returned"]
  /\ reply' = NoReply
  /\ UNCHANGED <<store, req, exec, runs, enq, redelivered, taskRuns>>
  /\ UNCHANGED <<svc, fetches, handler_errors, jobs_paused, cleaning>>

\* reset_dataset (lines 115-120), between test runs: no call is in flight
reset_dataset ==
  /\ \A k \in Callers : mock.call[k].pc # "found"
  /\ \E k \in Callers : mock.call[k].pc = "returned"
  /\ mock' = NoneConsumed
  /\ reply' = NoReply
  /\ UNCHANGED <<store, req, exec, runs, enq, redelivered, taskRuns>>
  /\ UNCHANGED <<svc, fetches, handler_errors, jobs_paused, cleaning>>

\* ------------------------------------- queue management (endpoints/queue_management.py)
\* str.lower() on the names a request can carry
lower(name) == IF name = "APOLLO" THEN "apollo" ELSE name

\* ThirdPartyService(value) raises ValueError unless value is a member's value
IsServiceAny(value) == TRUE

IsService(value) == value \in ThirdPartyService

\* the service a job's work calls
JobService(name) == IF name = "FETCH_LEADS" THEN "apollo" ELSE "openai"

ActiveForAny(row, s) == row.status \in {"PENDING", "PROCESSING"}

ActiveFor(row, s) == row.status \in {"PENDING", "PROCESSING"} /\ JobService(row.name) = s

\* a job row moved to PAUSED with the service it was paused for
JobPaused(row, s) == [row EXCEPT !.status = PAUSED, !.paused_by = s]

\* campaign_event_handler.handle_circuit_breaker_opened(service, reason): the
\* RUNNING campaigns (each depends on every service) are PAUSED with a
\* status_message naming the service and the reason, and their queued and
\* in-flight jobs for the service are PAUSED; the rows after it
handle_circuit_breaker_opened(cs, js, s, reason) ==
  LET hit == {c \in CampaignIds : cs[c].status = "RUNNING"} IN
  <<[c \in CampaignIds |->
       IF c \in hit
       THEN [cs[c] EXCEPT !.status = PAUSED, !.paused_by = s, !.reason = reason]
       ELSE cs[c]],
    [j \in JobIds |->
       IF js[j].campaign \in hit /\ ActiveFor(js[j], s) THEN JobPaused(js[j], s) ELSE js[j]]>>

\* queue_manager.pause_jobs_for_service(service, reason): every queued or
\* in-flight job of the service is PAUSED
pause_jobs_for_service(js, s) ==
  [j \in JobIds |-> IF ActiveFor(js[j], s) THEN JobPaused(js[j], s) ELSE js[j]]

\* the bulk pause that fails part-way: each job is paused in a transaction of
\* its own, in the order of the ids, and the jobs after upto are not reached
pause_jobs_upto(js, s, upto) ==
  [j \in JobIds |-> IF j <= upto /\ ActiveFor(js[j], s) THEN JobPaused(js[j], s) ELSE js[j]]

count_paused_attempted(js, s, upto) == Cardinality({j \in JobIds : ActiveFor(js[j], s)})

\* the count in the result of the bulk pause: the jobs it paused
count_paused(js, s, upto) == Cardinality({j \in JobIds : j <= upto /\ ActiveFor(js[j], s)})

BlockingNone(br, s) == {}

\* the other services whose breaker is OPEN
Blocking(br, s) == {o \in ThirdPartyService \ {s} : br[o].state = "OPEN"}

\* the jobs a resume puts back: PAUSED -> PENDING, one message each
Resumed(js, qu, back) ==
  <<[j \in JobIds |-> IF j \in back THEN [js[j] EXCEPT !.status = "PENDING", !.paused_by = "-"]
                                    ELSE js[j]],
    [j \in JobIds |-> IF j \in back /\ js[j].name = "FETCH_LEADS"
                      THEN [qu[j] EXCEPT !.n = @ + 1] ELSE qu[j]]>>

\* campaign_event_handler.handle_circuit_breaker_closed(service): a campaign
\* paused for the service resumes when no other service is OPEN, and its
\* PAUSED jobs return to PENDING and are enqueued again; otherwise it stays
\* PAUSED, annotated with the service that still blocks it
handle_circuit_breaker_closed(cs, js, qu, br, s) ==
  LET mine == {c \in CampaignIds : cs[c].status = PAUSED /\ cs[c].paused_by = s}
      resumed == IF Blocking(br, s) = {} THEN mine ELSE {}
      back == {j \in JobIds : js[j].campaign \in resumed /\ js[j].status = PAUSED}
      out == Resumed(js, qu, back)
  IN <<[c \in CampaignIds |->
          IF c \in resumed
          THEN [cs[c] EXCEPT !.status = "RUNNING", !.paused_by = "-", !.reason = "-"]
          ELSE IF c \in mine
          THEN [cs[c] EXCEPT !.paused_by = CHOOSE o \in Blocking(br, s) : TRUE]
          ELSE cs[c]],
       out[1], out[2]>>

\* queue_manager.resume_jobs_for_service(service): every job PAUSED for the
\* service returns to PENDING and is enqueued again
resume_jobs_for_service(js, qu, s) ==
  Resumed(js, qu, {j \in JobIds : js[j].status = PAUSED /\ JobService(js[j].name) = s})

\* circuit_breaker.manually_pause_service(service, reason): OPEN with
\* manual_override, opened_at stamped, the opened event handled; followed in
\* the endpoint by pause_jobs_for_service
manually_pause_service(s) ==
  LET out == handle_circuit_breaker_opened(campaigns, jobs, s, "manual") IN
  /\ breaker' = [breaker EXCEPT ![s] =
       [@ EXCEPT !.state = "OPEN", !.manual_override = TRUE, !.cooled = FALSE, !.probes = 0]]
  /\ campaigns' = out[1]
  /\ jobs' = pause_jobs_for_service(out[2], s)
  /\ UNCHANGED <<nextJobId, queue>>

\* the jobs a resume of services may put back while the queue has room
QueueRoom == \A j \in JobIds : jobs[j].status = PAUSED => queue[j].n < MaxQueued

\* circuit_breaker.manually_resume_service(service): CLOSED, manual_override
\* cleared, failure_count reset, the closed event handled; followed in the
\* endpoint by resume_jobs_for_service
manually_resume_service(s) ==
  LET br == [breaker EXCEPT ![s] = ClosedBreaker]
      out == handle_circuit_breaker_closed(campaigns, jobs, queue, br, s)
      fin == resume_jobs_for_service(out[2], out[3], s)
  IN /\ QueueRoom
     /\ breaker' = br
     /\ campaigns' = out[1]
     /\ jobs' = fin[1]
     /\ queue' = fin[2]
     /\ UNCHANGED nextJobId

\* ----------------------------------------- circuit breaker (core/circuit_breaker.py)
threshold_crossed_late(n) == n > FailureThreshold

threshold_crossed(n) == n >= FailureThreshold

\* record_failure(service, reason): failure_count is incremented atomically;
\* when the threshold is crossed, or the failure is that of a probe, the
\* breaker is OPEN, opened_at is stamped and the opened event is handled
record_failure(s) ==
  LET n == breaker[s].failure_count + 1
      opens == threshold_crossed(n) \/ breaker[s].state = "HALF_OPEN"
      out == IF opens THEN handle_circuit_breaker_opened(campaigns, jobs, s, "failures")
                      ELSE <<campaigns, jobs>>
  IN /\ breaker[s].failure_count < MaxFailures
     /\ breaker' = [breaker EXCEPT ![s] =
          IF opens
          THEN [@ EXCEPT !.state = "OPEN", !.failure_count = n, !.streak = @ + 1,
                         !.cooled = FALSE, !.probes = 0]
          ELSE [@ EXCEPT !.failure_count = n, !.streak = @ + 1]]
     /\ campaigns' = out[1]
     /\ jobs' = out[2]
     /\ reply' = Reply("record_failure", s, 0, "-")
     /\ UNCHANGED <<nextJobId, queue, req, exec, runs, enq, redelivered, taskRuns>>
     /\ UNCHANGED <<svc, aux>>

\* record_success(service): failure_count is reset; a HALF_OPEN breaker is
\* CLOSED and the closed event is handled
record_success(s) ==
  LET closes == breaker[s].state = "HALF_OPEN"
      br == [breaker EXCEPT ![s] =
               IF closes
               THEN [@ EXCEPT !.state = "CLOSED", !.failure_count = 0, !.streak = 0,
                              !.cooled = FALSE, !.probes = 0]
               ELSE [@ EXCEPT !.failure_count = 0, !.streak = 0]]
      out == IF closes THEN handle_circuit_breaker_closed(campaigns, jobs, queue, br, s)
                       ELSE <<campaigns, jobs, queue>>
  IN /\ QueueRoom
     /\ breaker' = br
     /\ campaigns' = out[1]
     /\ jobs' = out[2]
     /\ queue' = out[3]
     /\ reply' = Reply("record_success", s, 0, "-")
     /\ UNCHANGED <<nextJobId, req, exec, runs, enq, redelivered, taskRuns>>
     /\ UNCHANGED <<svc, aux>>

\* the cool-down interval since opened_at passes
cooldown_elapses(s) ==
  /\ breaker[s].state = "OPEN"
  /\ ~breaker[s].cooled
  /\ breaker' = [breaker EXCEPT ![s].cooled = TRUE]
  /\ reply' = NoReply
  /\ UNCHANGED <<campaigns, jobs, nextJobId, queue, req, exec, runs, enq, redelivered, taskRuns>>
  /\ UNCHANGED <<svc, aux>>

cooldown_over_always(b) == TRUE

cooldown_over(b) == b.cooled

\* is_call_allowed(service): CLOSED -> true; OPEN -> true only when the
\* cool-down has elapsed (the breaker is then HALF_OPEN), else false;
\* HALF_OPEN -> true while the probe quota lasts
is_call_allowed(s) ==
  LET b == breaker[s] IN
  /\ CASE b.state = "CLOSED" ->
            /\ reply' = Reply("is_call_allowed", s, 0, "true")
            /\ UNCHANGED breaker
       [] b.state = "OPEN" /\ cooldown_over(b) ->
            /\ reply' = Reply("is_call_allowed", s, 0, "true")
            /\ breaker' = [breaker EXCEPT ![s] = [@ EXCEPT !.state = "HALF_OPEN", !.probes = 1]]
       [] b.state = "OPEN" /\ ~cooldown_over(b) ->
            /\ reply' = Reply("is_call_allowed", s, 0, "false")
            /\ UNCHANGED breaker
       [] b.state = "HALF_OPEN" /\ b.probes < ProbeQuota ->
            /\ reply' = Reply("is_call_allowed", s, 0, "true")
            /\ breaker' = [breaker EXCEPT ![s].probes = @ + 1]
       [] OTHER ->
            /\ reply' = Reply("is_call_allowed", s, 0, "false")
            /\ UNCHANGED breaker
  /\ UNCHANGED <<campaigns, jobs, nextJobId, queue, req, exec, runs, enq, redelivered, taskRuns>>
  /\ UNCHANGED <<svc, aux>>

\* lines 47-87
pause_service(name) ==
  /\ IF ~IsService(lower(name))
     THEN /\ reply' = Reply("pause_service", name, 400, "service")
          /\ UNCHANGED <<store, jobs_paused>>
     ELSE /\ manually_pause_service(lower(name))
          /\ reply' = Reply("pause_service", name, 200, "paused")
          /\ jobs_paused' = count_paused(
               handle_circuit_breaker_opened(campaigns, jobs, lower(name), "manual")[2],
               lower(name), MaxJobs)
  /\ UNCHANGED <<req, exec, runs, enq, redelivered, taskRuns>>
  /\ UNCHANGED <<svc, fetches, mock, handler_errors, cleaning>>

\* POST /pause-service whose pause_jobs_for_service fails after the job upto
pause_service_partial(name, upto) ==
  LET s == lower(name)
      out == handle_circuit_breaker_opened(campaigns, jobs, s, "manual")
  IN /\ IsService(s)
     /\ breaker' = [breaker EXCEPT ![s] =
          [@ EXCEPT !.state = "OPEN", !.manual_override = TRUE, !.cooled = FALSE,
                    !.probes = 0]]
     /\ campaigns' = out[1]
     /\ jobs' = pause_jobs_upto(out[2], s, upto)
     /\ jobs_paused' = count_paused(out[2], s, upto)
     /\ reply' = Reply("pause_service", name, 200, "paused")
     /\ UNCHANGED <<nextJobId, queue, req, exec, runs, enq, redelivered, taskRuns>>
     /\ UNCHANGED <<svc, fetches, mock, handler_errors, cleaning>>

\* queue_manager.pause_jobs_for_service(service, reason) invoked by an
\* operator, failing after the job upto
pause_jobs_for_service_partial(s, upto) ==
  /\ jobs' = pause_jobs_upto(jobs, s, upto)
  /\ jobs_paused' = count_paused(jobs, s, upto)
  /\ reply' = Reply("pause_jobs_for_service", s, 0, "-")
  /\ UNCHANGED <<campaigns, nextJobId, queue, breaker, req, exec, runs, enq, redelivered,
                 taskRuns>>
  /\ UNCHANGED <<svc, fetches, mock, handler_errors, cleaning>>

\* lines 89-128
resume_service(name) ==
  /\ IF ~IsService(lower(name))
     THEN /\ reply' = Reply("resume_service", name, 400, "service")
          /\ UNCHANGED store
     ELSE /\ manually_resume_service(lower(name))
          /\ reply' = Reply("resume_service", name, 200, "resumed")
  /\ UNCHANGED <<req, exec, runs, enq, redelivered, taskRuns>>
  /\ UNCHANGED <<svc, aux>>

\* ------------------------- event handlers that raise (core/circuit_breaker.py)
notify_uncaught(old, new) == [breaker |-> old, raised |-> TRUE]

\* the notification of an event handler that raises: the error is caught and
\* logged, the transition stands and the operation goes on
notify_failed(old, new) == [breaker |-> new, raised |-> FALSE]

\* what a breaker operation returns to its caller
Returned(op, s, raised) == Reply(op, s, IF raised THEN 500 ELSE 0, "-")

\* record_failure(service, reason) with an opened-event handler that raises
\* before it writes a row
record_failure_handler_error(s) ==
  LET n == breaker[s].failure_count + 1
      opens == threshold_crossed(n) \/ breaker[s].state = "HALF_OPEN"
      out == IF opens
             THEN notify_failed(breaker,
                    [breaker EXCEPT ![s] = [@ EXCEPT !.state = "OPEN", !.failure_count = n,
                                                     !.streak = @ + 1, !.cooled = FALSE,
                                                     !.probes = 0]])
             ELSE [breaker |-> [breaker EXCEPT ![s] = [@ EXCEPT !.failure_count = n,
                                                                !.streak = @ + 1]],
                   raised |-> FALSE]
  IN /\ breaker[s].failure_count < MaxFailures
     /\ breaker' = out.breaker
     /\ reply' = Returned("record_failure", s, out.raised)
     /\ handler_errors' = (handler_errors \/ opens)
     /\ UNCHANGED <<campaigns, jobs, nextJobId, queue, req, exec, runs, enq, redelivered,
                    taskRuns>>
     /\ UNCHANGED <<svc, fetches, mock, jobs_paused, cleaning>>

\* record_success(service) with a closed-event handler that raises before it
\* writes a row
record_success_handler_error(s) ==
  LET closes == breaker[s].state = "HALF_OPEN"
      out == IF closes
             THEN notify_failed(breaker,
                    [breaker EXCEPT ![s] = [@ EXCEPT !.state = "CLOSED", !.failure_count = 0,
                                                     !.streak = 0, !.cooled = FALSE,
                                                     !.probes = 0]])
             ELSE [breaker |-> [breaker EXCEPT ![s] = [@ EXCEPT !.failure_count = 0,
                                                                !.streak = 0]],
                   raised |-> FALSE]
  IN /\ breaker' = out.breaker
     /\ reply' = Returned("record_success", s, out.raised)
     /\ handler_errors' = (handler_errors \/ closes)
     /\ UNCHANGED <<campaigns, jobs, nextJobId, queue, req, exec, runs, enq, redelivered,
                    taskRuns>>
     /\ UNCHANGED <<svc, fetches, mock, jobs_paused, cleaning>>

\* POST /pause-service (lines 47-87) with an opened-event handler that raises:
\* manually_pause_service returns, pause_jobs_for_service follows; an
\* exception out of either is answered 500
pause_service_handler_error(name) ==
  LET s == lower(name)
      out == notify_failed(breaker,
               [breaker EXCEPT ![s] = [@ EXCEPT !.state = "OPEN", !.manual_override = TRUE,
                                                !.cooled = FALSE, !.probes = 0]])
  IN /\ IsService(s)
     /\ breaker' = out.breaker
     /\ IF out.raised
        THEN /\ reply' = Reply("pause_service", name, 500, "error")
             /\ UNCHANGED <<jobs, jobs_paused>>
        ELSE /\ reply' = Reply("pause_service", name, 200, "paused")
             /\ jobs' = pause_jobs_for_service(jobs, s)
             /\ jobs_paused' = count_paused(jobs, s, MaxJobs)
     /\ UNCHANGED <<campaigns, nextJobId, queue, req, exec, runs, enq, redelivered, taskRuns>>
     /\ handler_errors' = TRUE
     /\ UNCHANGED <<svc, fetches, mock, cleaning>>

\* POST /resume-service (lines 89-128) with a closed-event handler that raises:
\* manually_resume_service returns, resume_jobs_for_service follows
resume_service_handler_error(name) ==
  LET s == lower(name)
      out == notify_failed(breaker, [breaker EXCEPT ![s] = ClosedBreaker])
      fin == resume_jobs_for_service(jobs, queue, s)
  IN /\ IsService(s)
     /\ QueueRoom
     /\ breaker' = out.breaker
     /\ IF out.raised
        THEN /\ reply' = Reply("resume_service", name, 500, "error")
             /\ UNCHANGED <<jobs, queue>>
        ELSE /\ reply' = Reply("resume_service", name, 200, "resumed")
             /\ jobs' = fin[1]
             /\ queue' = fin[2]
     /\ UNCHANGED <<campaigns, nextJobId, req, exec, runs, enq, redelivered, taskRuns>>
     /\ handler_errors' = TRUE
     /\ UNCHANGED <<svc, fetches, mock, jobs_paused, cleaning>>

\* ------------------------------ rate limiter (core/api_integration_rate_limiter.py)
has_room_lax(s, used) == used <= max_requests(s)

has_room(s, used) == used < max_requests(s)

\* acquire(): one atomic step on the shared counter; the value returned and
\* the limiters after it
acquire(lim, s) ==
  IF has_room(s, lim[s].used)
  THEN <<TRUE, [lim EXCEPT ![s] = [used |-> @.used + 1, granted |-> @.granted + 1]]>>
  ELSE <<FALSE, lim>>

\* get_remaining()
get_remaining(lim, s) == max_requests(s) - lim[s].used

\* a caller calls acquire(); the counter store may be unreachable
limiter_acquire(s, fails) ==
  /\ IF fails
     THEN /\ reply' = Reply("acquire", s, 0, "raise")
          /\ UNCHANGED limiter
     ELSE /\ reply' = Reply("acquire", s, 0, IF acquire(limiter, s)[1] THEN "true" ELSE "false")
          /\ limiter' = acquire(limiter, s)[2]
  /\ UNCHANGED <<aux, store, req, exec, runs, enq, redelivered, taskRuns, calls, last>>

\* a caller calls get_remaining()
limiter_get_remaining(s, fails) ==
  /\ reply' = IF fails THEN Reply("get_remaining", s, 0, "raise")
                       ELSE Reply("get_remaining", s, get_remaining(limiter, s), "-")
  /\ UNCHANGED <<aux, store, req, exec, runs, enq, redelivered, taskRuns, svc>>

\* period_seconds pass: the window of the limiter ends
window_expires(s) ==
  /\ limiter[s] # NewWindow
  /\ limiter' = [limiter EXCEPT ![s] = NewWindow]
  /\ reply' = NoReply
  /\ UNCHANGED <<aux, store, req, exec, runs, enq, redelivered, taskRuns, calls, last>>

\* ------------- ApolloService.fetch_leads, OpenAIService.generate_email_copy
\* a call of the service method in flight
CallAt(s, pc, limited) ==
  [svc |-> s, pc |-> pc, limited |-> limited, err |-> FALSE, rejected |-> FALSE, remote |-> "none"]

Method(s) == IF s = "apollo" THEN "fetch_leads" ELSE "generate_email_copy"
\* what the method does with an exception of its try block: fetch_leads
\* re-raises it, generate_email_copy returns a result with status error
Failure(s) == IF s = "apollo" THEN "raise" ELSE "error"

\* the call k returns result, having become fin
Returns(k, fin, result) ==
  /\ calls' = Take(calls, k)
  /\ last' = [svc |-> fin.svc, err |-> fin.err, rejected |-> fin.rejected,
              remote |-> fin.remote, result |-> result]
  /\ reply' = Reply(Method(k.svc), k.svc, 0, result)

\* the call k goes on as next
GoesOn(k, next) ==
  /\ calls' = Put(Take(calls, k), next)
  /\ reply' = NoReply
  /\ UNCHANGED last

\* the method is called on a service built with a rate limiter or without
service_call(s, limited) ==
  /\ BagCardinality(calls) < MaxCalls
  /\ calls' = Put(calls, CallAt(s, IF limited THEN "check" ELSE "proceed", limited))
  /\ reply' = NoReply
  /\ UNCHANGED <<aux, store, req, exec, runs, enq, redelivered, taskRuns, limiter, last>>

\* apollo_service.py 161-165, openai_service.py 57-59: acquire(); an
\* exception of it is logged by the except block and the call proceeds
check_rate_limit(k, fails) ==
  /\ BagIn(k, calls)
  /\ k.pc = "check"
  /\ IF fails
     THEN /\ GoesOn(k, [k EXCEPT !.pc = "proceed", !.err = TRUE])
          /\ UNCHANGED limiter
     ELSE /\ limiter' = acquire(limiter, k.svc)[2]
          /\ IF acquire(limiter, k.svc)[1]
             THEN GoesOn(k, [k EXCEPT !.pc = "proceed"])
             ELSE GoesOn(k, [k EXCEPT !.pc = "rejected", !.rejected = TRUE])
  /\ UNCHANGED <<aux, store, req, exec, runs, enq, redelivered, taskRuns>>

\* apollo_service.py 165-186, openai_service.py 60-80: acquire() returned
\* false; get_remaining(), then the rate-limited result is returned; an
\* exception of get_remaining() is logged by the same except block and the
\* call proceeds
rate_limit_exceeded(k, fails) ==
  /\ BagIn(k, calls)
  /\ k.pc = "rejected"
  /\ IF fails
     THEN GoesOn(k, [k EXCEPT !.pc = "proceed", !.err = TRUE])
     ELSE Returns(k, k, "rate_limited")
  /\ UNCHANGED <<aux, store, req, exec, runs, enq, redelivered, taskRuns, limiter>>

\* the remote call is the next statement of the call k
AtRemoteCall(k) == k.pc = "call" \/ (k.pc = "proceed" /\ ~(k.svc = "apollo" /\ k.limited))

\* apollo_service.py 201-202: get_remaining() inside the try block, before the
\* actor is called; an exception of it leaves fetch_leads through except/raise
remaining_before(k, fails) ==
  /\ BagIn(k, calls)
  /\ k.pc = "proceed"
  /\ ~AtRemoteCall(k)
  /\ IF fails
     THEN Returns(k, [k EXCEPT !.err = TRUE], Failure(k.svc))
     ELSE GoesOn(k, [k EXCEPT !.pc = "call"])
  /\ UNCHANGED <<aux, store, req, exec, runs, enq, redelivered, taskRuns, limiter>>

\* apollo_service.py 213-229, openai_service.py 164-174: the remote service is
\* called and answers or fails
remote_call(k, ok) ==
  /\ BagIn(k, calls)
  /\ AtRemoteCall(k)
  /\ LET next == [k EXCEPT !.remote = IF ok THEN "ok" ELSE "failed"] IN
     IF ~ok
     THEN Returns(k, next, Failure(k.svc))
     ELSE IF k.limited
     THEN GoesOn(k, [next EXCEPT !.pc = "after"])
     ELSE Returns(k, next, "ok")
  /\ UNCHANGED <<aux, store, req, exec, runs, enq, redelivered, taskRuns, limiter>>

\* apollo_service.py 231-232, openai_service.py 178-179: get_remaining() after
\* the remote call, still inside the try block
remaining_after(k, fails) ==
  /\ BagIn(k, calls)
  /\ k.pc = "after"
  /\ IF fails
     THEN Returns(k, [k EXCEPT !.err = TRUE], Failure(k.svc))
     ELSE Returns(k, k, "ok")
  /\ UNCHANGED <<aux, store, req, exec, runs, enq, redelivered, taskRuns, limiter>>

\* ---------------------------------------- CampaignService.pause_campaign
\* pause_campaign(campaign_id, reason, db) as the operator calls it: a RUNNING
\* campaign is PAUSED with the reason the operator gave, which is free text
\* and comes with no service
pause_campaign(c) ==
  /\ IF campaigns[c] # NoCampaign /\ is_valid_transition(campaigns[c].status, PAUSED)
     THEN /\ campaigns' = [campaigns EXCEPT ![c] =
               [@ EXCEPT !.status = PAUSED, !.paused_by = "-", !.reason = "operator"]]
          /\ reply' = Reply("pause_campaign", c, 200, "paused")
     ELSE /\ reply' = Reply("pause_campaign", c, 400, "status")
          /\ UNCHANGED campaigns
  /\ UNCHANGED <<jobs, nextJobId, queue, breaker, req, exec, runs, enq, redelivered, taskRuns>>
  /\ UNCHANGED <<svc, aux>>

\* ------------------------------------------------------------ specifications
\* creating and starting campaigns, with up to n start requests in flight
StartNext(n) ==
  \/ \E c \in CampaignIds, in \in CreateInputs : create_campaign(c, in[1], in[2])
  \/ \E c \in CampaignIds : start_campaign_check(n, c)
  \/ \E q \in BagToSet(req) : start_campaign_commit_running(q)
  \/ \E q \in BagToSet(req), raises \in BOOLEAN : start_campaign_create_job(q, raises)
  \/ \E q \in BagToSet(req), raises \in BOOLEAN : start_campaign_enqueue(q, raises)

\* one start_campaign request at a time
Serial == 1

\* the worker of the task start_campaign enqueues
FetchNext ==
  \/ \E j \in JobIds : fetch_and_save_leads_claim(j)
  \/ \E e \in BagToSet(exec), result \in FetchResults : fetch_and_save_leads_finish(e, result)

\* campaigns, jobs, the task queue, the workers and the cancellation of jobs
Next ==
  \/ StartNext(MaxReq)
  \/ FetchNext
  \/ \E j \in JobIds : redeliver(j)
  \/ \E j \in JobIds, revoked \in BOOLEAN : cancel_job(j, revoked)

Spec == Init /\ [][Next]_vars

\* the same, with the results of the fetches on record
NextFetch ==
  \/ StartNext(MaxReq)
  \/ \E j \in JobIds : fetch_and_save_leads_claim(j)
  \/ \E e \in BagToSet(exec), result \in FetchResults :
       \E n \in Counts(result) : fetch_and_save_leads_finish_counted(e, result, n)
  \/ \E j \in JobIds : redeliver(j)
  \/ \E j \in JobIds, revoked \in BOOLEAN : cancel_job(j, revoked)

SpecFetch == Init /\ [][NextFetch]_vars

\* the tasks of workers/campaign_tasks.py, delivered for any job or campaign id
NextTasks ==
  \/ StartNext(Serial)
  \/ FetchNext
  \/ \E j \in JobIds : fetch_and_save_leads_task_claim(j)
  \/ \E e \in BagToSet(exec), result \in TaskFetchResults : fetch_and_save_leads_task_finish(e, result)
  \/ \E c \in CampaignIds : process_campaign_leads_task_start(c)
  \/ \E e \in BagToSet(exec), raises \in BOOLEAN : process_campaign_leads_task_finish(e, raises)
  \/ \E j \in JobIds, revoked \in BOOLEAN : cancel_job(j, revoked)

SpecTasks == Init /\ [][NextTasks]_vars

\* campaigns and their fetch jobs under the pause and resume of services
NextService ==
  \/ StartNext(Serial)
  \/ FetchNext
  \/ \E name \in ServiceNames : pause_service(name)
  \/ \E name \in ServiceNames : resume_service(name)

SpecService == Init /\ [][NextService]_vars

\* campaigns and the jobs of the processing task under the pause of services,
\* with bulk pauses that fail part-way
NextBulk ==
  \/ StartNext(Serial)
  \/ \E c \in CampaignIds : process_campaign_leads_task_start(c)
  \/ \E e \in BagToSet(exec), raises \in BOOLEAN : process_campaign_leads_task_finish(e, raises)
  \/ \E name \in ServiceNames : pause_service(name)
  \/ \E name \in ServiceNames, upto \in 0..MaxJobs : pause_service_partial(name, upto)
  \/ \E s \in ThirdPartyService, upto \in 0..MaxJobs : pause_jobs_for_service_partial(s, upto)

SpecBulk == Init /\ [][NextBulk]_vars

\* the same with the manual pause of one campaign
NextPause ==
  \/ NextService
  \/ \E c \in CampaignIds : pause_campaign(c)

SpecPause == Init /\ [][NextPause]_vars

\* campaigns and their queued fetch jobs under the circuit breakers: recorded
\* call outcomes and the cool-down
NextBreaker ==
  \/ StartNext(Serial)
  \/ \E s \in ThirdPartyService : record_failure(s)
  \/ \E s \in ThirdPartyService : record_success(s)
  \/ \E s \in ThirdPartyService : cooldown_elapses(s)
  \/ \E s \in ThirdPartyService : is_call_allowed(s)

SpecBreaker == Init /\ [][NextBreaker]_vars

\* campaigns under the circuit breakers when every event handler raises:
\* recorded call outcomes, the cool-down and the manual pause and resume
NextHandler ==
  \/ StartNext(Serial)
  \/ \E s \in ThirdPartyService : cooldown_elapses(s)
  \/ \E s \in ThirdPartyService : is_call_allowed(s)
  \/ \E s \in ThirdPartyService : record_failure_handler_error(s)
  \/ \E s \in ThirdPartyService : record_success_handler_error(s)
  \/ \E name \in ServiceNames : pause_service_handler_error(name)
  \/ \E name \in ServiceNames : resume_service_handler_error(name)

SpecHandler == Init /\ [][NextHandler]_vars

\* campaigns, jobs of no campaign, the workers, the passing of days and the
\* cleanup of old jobs, by the endpoint and by the task
CleanupDays == 0..MaxAge

NextCleanup ==
  \/ StartNext(Serial)
  \/ FetchNext
  \/ \E j \in JobIds : redeliver(j)
  \/ create_job
  \/ \E j \in JobIds : process_job_claim(j)
  \/ \E j \in JobIds, ok \in BOOLEAN : process_job_finish(j, ok)
  \/ day_passes
  \/ \E c \in CampaignIds, days \in CleanupDays, task \in BOOLEAN :
       cleanup_campaign_jobs_query(c, days, task)
  \/ \E revoked \in BOOLEAN : cleanup_campaign_jobs_delete(revoked)

SpecCleanup == Init /\ [][NextCleanup]_vars

\* the callers of the mock dataset, as the workers of concurrent campaigns
LeadsCounts == 0..MaxRecords

NextMock ==
  \/ \E k \in Callers, count \in LeadsCounts : get_next_campaign_data_find(k, count)
  \/ \E k \in Callers : get_next_campaign_data_return(k)
  \/ reset_dataset

SpecMock == Init /\ [][NextMock]_vars

\* the steps a start_campaign request takes once it passed the guard
RequestSteps ==
  \/ \E q \in BagToSet(req) : start_campaign_commit_running(q)
  \/ \E q \in BagToSet(req), raises \in BOOLEAN : start_campaign_create_job(q, raises)
  \/ \E q \in BagToSet(req), raises \in BOOLEAN : start_campaign_enqueue(q, raises)

\* campaigns, the task queue, the workers, the cancellation of jobs and the
\* cleanup of old jobs; a request handler that can take a step takes one, a
\* worker with a task to take or a fetch to end does so, and a cleanup that
\* read the table commits its deletion
NextLive ==
  \/ Next
  \/ day_passes
  \/ \E c \in CampaignIds, days \in CleanupDays, task \in BOOLEAN :
       cleanup_campaign_jobs_query(c, days, task)
  \/ \E revoked \in BOOLEAN : cleanup_campaign_jobs_delete(revoked)

SpecLive ==
  /\ Init
  /\ [][NextLive]_vars
  /\ WF_vars(RequestSteps)
  /\ WF_vars(FetchNext)
  /\ WF_vars(\E revoked \in BOOLEAN : cleanup_campaign_jobs_delete(revoked))

\* the rate limiters, alone and under the calls of the service methods
NextLimiter ==
  \/ \E s \in ThirdPartyService, fails \in BOOLEAN : limiter_acquire(s, fails)
  \/ \E s \in ThirdPartyService, fails \in BOOLEAN : limiter_get_remaining(s, fails)
  \/ \E s \in ThirdPartyService : window_expires(s)
  \/ \E s \in ThirdPartyService, limited \in BOOLEAN : service_call(s, limited)
  \/ \E k \in BagToSet(calls), fails \in BOOLEAN : check_rate_limit(k, fails)
  \/ \E k \in BagToSet(calls), fails \in BOOLEAN : rate_limit_exceeded(k, fails)
  \/ \E k \in BagToSet(calls), fails \in BOOLEAN : remaining_before(k, fails)
  \/ \E k \in BagToSet(calls), ok \in BOOLEAN : remote_call(k, ok)
  \/ \E k \in BagToSet(calls), fails \in BOOLEAN : remaining_after(k, fails)

SpecLimiter == Init /\ [][NextLimiter]_vars

\* campaigns and their fetch jobs under PATCH requests
NextUpdate ==
  \/ StartNext(Serial)
  \/ FetchNext
  \/ \E c \in CampaignIds, s \in CampaignStatus : update_campaign(c, "status", s)
  \/ \E c \in CampaignIds, t \in TotalRecordsValues : update_campaign(c, "totalRecords", t)
  \/ \E c \in CampaignIds, u \in Urls : update_campaign(c, "url", u)

SpecUpdate == Init /\ [][NextUpdate]_vars

\* ------------------------------------------------------------------- claims
StartRejected(c, detail) == Reply("start_campaign", c, 400, detail)
StartOk(c) == Reply("start_campaign", c, 200, "started")
\* a start_campaign request for c went past the validation in this step
PassedValidation(c) ==
  CopiesIn(ReqAt("validated", c, 0), req') > CopiesIn(ReqAt("validated", c, 0), req)
FetchJobsOf(js, c) == {j \in JobIds : js[j].campaign = c /\ js[j].name = "FETCH_LEADS"}

\* C1: start_campaign on a campaign whose status is not CREATED is answered
\* with the status error; the step leaves the campaign rows, the job rows,
\* the task queue and the count of enqueued tasks as they were, and a request
\* goes past the status guard only when the campaign is CREATED.
C1_StartOnlyFromCreated ==
  [][\A c \in CampaignIds :
       /\ (/\ start_campaign_check(MaxReq, c)
           /\ campaigns[c].status \in (CampaignStatus \cup {PAUSED}) \ {"CREATED"})
            => reply' = StartRejected(c, "status")
       /\ PassedValidation(c) => campaigns[c].status = "CREATED"
       /\ reply' = StartRejected(c, "status")
            => /\ campaigns[c].status \in (CampaignStatus \cup {PAUSED}) \ {"CREATED"}
               /\ UNCHANGED <<store, req, enq>>]_vars

\* C1 witness: a second start of a started campaign was just rejected
C1_Witness ==
  /\ reply = StartRejected("c1", "status")
  /\ campaigns["c1"].status = "RUNNING"
  /\ enq["c1"] = 1

\* C2: for every job at most one task execution is started, whatever the
\* deliveries of its task (violated: the claim is an unconditional write).
C2_AtMostOneExecutionPerJob == \A j \in JobIds : runs[j] <= 1

\* C3: for every campaign at most one FETCH_LEADS job is created and at most
\* one task is enqueued, whatever the start_campaign requests in flight
\* (violated: the status guard and the write of RUNNING are not atomic).
C3_AtMostOneFetchJob ==
  \A c \in CampaignIds : enq[c] <= 1 /\ Cardinality(FetchJobsOf(jobs, c)) <= 1

\* C4: when start_campaign answers with success the campaign is RUNNING and
\* has exactly one FETCH_LEADS job, whose task was enqueued exactly once; a
\* FETCH_LEADS job row appears in PENDING.
C4_StartedExactlyOnce ==
  [][\A c \in CampaignIds :
       /\ reply' = StartOk(c)
            => /\ campaigns'[c].status = "RUNNING"
               /\ Cardinality(FetchJobsOf(jobs', c)) = 1
               /\ enq'[c] = 1
       /\ \A j \in FetchJobsOf(jobs', c) \ FetchJobsOf(jobs, c) : jobs'[j].status = "PENDING"]_vars

CountOutOfRange(t) == t = 0 \/ t > 1000

\* C5, as stated: a campaign created with totalRecords = 0 or > 1000 is never
\* RUNNING, whatever operations are applied to it.
C5_NeverRunning ==
  \A c \in CampaignIds :
    (campaigns[c] # NoCampaign /\ CountOutOfRange(campaigns[c].createdTotal))
      => campaigns[c].status # "RUNNING"

\* C5, amended: start_campaign on a campaign whose totalRecords is 0 or
\* > 1000 is answered with the count error and changes nothing, a request
\* goes past the validation only with a count in 1..1000, and a campaign
\* created with such a count is never RUNNING as long as no update_campaign
\* request has changed it.
C5_RejectedUntilUpdated ==
  [][\A c \in CampaignIds :
       /\ (/\ campaigns'[c] # NoCampaign
           /\ CountOutOfRange(campaigns'[c].createdTotal)
           /\ ~campaigns'[c].updated)
            => campaigns'[c].status = "CREATED"
       /\ PassedValidation(c) => ~CountOutOfRange(campaigns[c].totalRecords)
       /\ reply' = StartRejected(c, "count")
            => /\ CountOutOfRange(campaigns[c].totalRecords)
               /\ UNCHANGED <<store, req, enq>>]_vars

\* C5 witness: the start of a campaign created with an out-of-range count,
\* never updated, was just rejected
C5_Witness ==
  /\ reply = StartRejected("c1", "count")
  /\ CountOutOfRange(campaigns["c1"].createdTotal)
  /\ ~campaigns["c1"].updated
  /\ campaigns["c1"].status = "CREATED"

ValidWireNames == {"apollo", "APOLLO", "openai"}
ValidationRejected(r) == r.code = 400 /\ r.detail \in {"url", "count", "service"}

\* C6: a request rejected by validation (start_campaign with an invalid url
\* or count, pause-service or resume-service with an invalid service name)
\* leaves campaigns, jobs, the queue and the breaker records unchanged and
\* leaves no request or task behind; every such invalid request is rejected.
C6_RejectionChangesNothing ==
  [][/\ ValidationRejected(reply') => UNCHANGED <<store, req, exec, enq, runs>>
     /\ (reply'.op \in {"pause_service", "resume_service"} /\ reply'.id \notin ValidWireNames)
          => reply'.code = 400
     /\ \A c \in CampaignIds :
          PassedValidation(c)
            => campaigns[c].url = UrlApollo /\ campaigns[c].totalRecords \in 1..1000]_vars

\* C6 witness: a pause request with an invalid service name was just
\* rejected while a campaign is RUNNING and its job is on the queue
C6_Witness ==
  /\ reply = Reply("pause_service", "invalid_service", 400, "service")
  /\ campaigns["c1"].status = "RUNNING"
  /\ \E j \in JobIds : queue[j].n > 0

\* C7: a job that is CANCELLED stays CANCELLED.
C7_CancelledIsFinal ==
  [][\A j \in JobIds : jobs[j].status = "CANCELLED" => jobs'[j].status = "CANCELLED"]_vars

\* C8: a COMPLETED campaign has its FETCH_LEADS job COMPLETED, and a FAILED
\* FETCH_LEADS job has its campaign FAILED.
C8_CampaignAgreesWithFetchJob ==
  \A c \in CampaignIds : \A j \in FetchJobsOf(jobs, c) :
    /\ campaigns[c].status = "COMPLETED" => jobs[j].status = "COMPLETED"
    /\ jobs[j].status = "FAILED" => campaigns[c].status = "FAILED"

\* C9: whenever an execution of the FETCH_LEADS task ends in an error, the
\* step leaves the job FAILED with its error and completed_at set and the
\* campaign FAILED with the error recorded.
C9_FailureReachesJobAndCampaign ==
  \A e \in BagToSet(exec) :
    e.kind = "fetch_and_save_leads"
      => LET out == fetch_and_save_leads_except(e.j, e.c)
             job == out[2][e.j]
             campaign == out[1][e.c]
         IN /\ job.status = "FAILED" /\ job.error /\ job.completed_at
            /\ campaign.status = "FAILED" /\ campaign.status_error

ProcessLeads == "process_campaign_leads_task"

\* C10: a step of a process_campaign_leads_task execution leaves every
\* campaign row as it was and writes no job row but its own, which it leaves
\* COMPLETED, or FAILED with the error when the task fails.
C10_ProcessLeadsOwnRowOnly ==
  [][\A e \in BagToSet(exec) \cup BagToSet(exec') :
       e.kind = ProcessLeads
         => /\ CopiesIn(e, exec') # CopiesIn(e, exec) => campaigns' = campaigns
            /\ \A raises \in BOOLEAN :
                 process_campaign_leads_task_finish(e, raises)
                   => /\ campaigns' = campaigns
                      /\ \A k \in JobIds \ {e.j} : jobs'[k] = jobs[k]
                      /\ jobs'[e.j].status = (IF raises THEN "FAILED" ELSE "COMPLETED")
                      /\ raises => jobs'[e.j].error]_vars

\* C10 witness: the enrichment job of a COMPLETED campaign has FAILED
C10_Witness ==
  \E j \in JobIds :
    /\ jobs[j].name = "PROCESS_LEADS_ENRICHMENT"
    /\ jobs[j].status = "FAILED"
    /\ jobs[j].error
    /\ campaigns[jobs[j].campaign].status = "COMPLETED"

CampaignEdges ==
  {<<"CREATED", "RUNNING">>, <<"RUNNING", "COMPLETED">>, <<"RUNNING", "FAILED">>,
   <<"RUNNING", PAUSED>>, <<PAUSED, "RUNNING">>}

\* C11: the status of a campaign changes only along CREATED -> RUNNING,
\* RUNNING -> COMPLETED, RUNNING -> FAILED, RUNNING -> PAUSED and
\* PAUSED -> RUNNING, so a COMPLETED or FAILED campaign keeps its status and
\* no campaign returns to CREATED.
C11_StatusFollowsGraph ==
  [][\A c \in CampaignIds :
       (campaigns[c] # NoCampaign /\ campaigns'[c].status # campaigns[c].status)
         => <<campaigns[c].status, campaigns'[c].status>> \in CampaignEdges]_vars

\* a step that opens the breaker of service s, or pauses the service again
Opens(s) ==
  /\ breaker'[s].state = "OPEN"
  /\ \/ breaker[s].state # "OPEN"
     \/ reply'.op = "pause_service" /\ reply'.code = 200 /\ lower(reply'.id) = s

\* the job types whose work calls service s
JobTypesOf(s) == IF s = "apollo" THEN {"FETCH_LEADS"} ELSE {"PROCESS_LEADS_ENRICHMENT"}

Closes(s) ==
  /\ breaker'[s].state = "CLOSED"
  /\ \/ breaker[s].state # "CLOSED"
     \/ reply'.op = "resume_service" /\ reply'.code = 200 /\ lower(reply'.id) = s

ResumeOf(s) == reply'.op = "resume_service" /\ reply'.code = 200 /\ lower(reply'.id) = s

\* the executions in flight for job j
InFlight(ex, j) == BagCardinality([e \in {x \in BagToSet(ex) : x.j = j} |-> ex[e]])

\* on a resume of service S every job PAUSED for S returns to PENDING with one
\* more message on the task queue, and the messages of the other jobs stay
ReenqueuedOnce ==
  \A s \in ThirdPartyService : ResumeOf(s) =>
    \A j \in JobIds :
      IF jobs[j].status = PAUSED /\ jobs[j].paused_by = s
      THEN jobs'[j].status = "PENDING" /\ queue'[j].n = queue[j].n + 1
      ELSE queue'[j] = queue[j] /\ jobs'[j].status = jobs[j].status

\* C14: on a resume of service S every job PAUSED for S returns to PENDING and
\* is put back on the task queue exactly once, and no job has two messages
\* or executions at a time or is executed a second time.
C14_ResumedExactlyOnce ==
  [][/\ ReenqueuedOnce
     /\ \A j \in JobIds : queue'[j].n + InFlight(exec', j) <= 1 /\ runs'[j] <= 1]_vars

\* C15: every campaign and every job whose status is PAUSED carries a
\* non-empty reason that names the third-party service that caused the pause.
C15_PausedNamesService ==
  /\ \A c \in CampaignIds :
       campaigns[c].status = PAUSED
         => campaigns[c].reason # "-" /\ campaigns[c].paused_by \in ThirdPartyService
  /\ \A j \in JobIds :
       jobs[j].status = PAUSED => jobs[j].paused_by \in ThirdPartyService

\* the step or the last step was the call op(s)
Called(r, op, s) == r.op = op /\ r.id = s

\* C16: once failure_threshold record_failure(S) calls have followed one
\* another with no record_success(S) between them the breaker of S is OPEN,
\* an is_call_allowed(S) made right after returns false, and record_failure(S)
\* leaves the breakers of the other services as they were.
C16_ThresholdOpens ==
  [][\A s \in ThirdPartyService :
       /\ (Called(reply', "record_failure", s) /\ breaker'[s].streak >= FailureThreshold)
            => breaker'[s].state = "OPEN"
       /\ (/\ Called(reply, "record_failure", s)
           /\ breaker[s].streak >= FailureThreshold
           /\ Called(reply', "is_call_allowed", s))
            => reply'.detail = "false" /\ breaker'[s].state = "OPEN"
       /\ Called(reply', "record_failure", s)
            => \A o \in ThirdPartyService \ {s} : breaker'[o] = breaker[o]]_vars

\* the threshold was reached by failures alone and the call that followed was
\* refused, while the other breaker had failures counted short of its own
C16_Witness ==
  \E s \in ThirdPartyService, o \in ThirdPartyService :
    /\ o # s
    /\ Called(reply, "is_call_allowed", s) /\ reply.detail = "false"
    /\ breaker[s].state = "OPEN" /\ breaker[s].streak = FailureThreshold
    /\ breaker[o].state = "CLOSED" /\ breaker[o].streak > 0

\* C17: while the breaker of S is OPEN, is_call_allowed(S) returns false and
\* leaves it OPEN until the cool-down has elapsed; after that it returns true
\* and leaves it HALF_OPEN, which is the only way out of OPEN into HALF_OPEN,
\* so it happens once per opening; from HALF_OPEN a record_success(S) leaves
\* it CLOSED and a record_failure(S) leaves it OPEN.
C17_HalfOpenOncePerOpening ==
  [][\A s \in ThirdPartyService :
       /\ (breaker[s].state = "OPEN" /\ Called(reply', "is_call_allowed", s))
            => IF breaker[s].cooled
               THEN reply'.detail = "true" /\ breaker'[s].state = "HALF_OPEN"
               ELSE reply'.detail = "false" /\ breaker'[s].state = "OPEN"
       /\ (breaker[s].state = "OPEN" /\ breaker'[s].state = "HALF_OPEN")
            => Called(reply', "is_call_allowed", s) /\ reply'.detail = "true" /\ breaker[s].cooled
       /\ (breaker[s].state = "HALF_OPEN" /\ Called(reply', "record_success", s))
            => breaker'[s].state = "CLOSED"
       /\ (breaker[s].state = "HALF_OPEN" /\ Called(reply', "record_failure", s))
            => breaker'[s].state = "OPEN" /\ ~breaker'[s].cooled]_vars

\* a breaker opened by failures has cooled down and the call asked for after
\* that was allowed as its first probe
C17_Witness ==
  \E s \in ThirdPartyService :
    /\ Called(reply, "is_call_allowed", s) /\ reply.detail = "true"
    /\ breaker[s].state = "HALF_OPEN" /\ breaker[s].probes = 1
    /\ breaker[s].streak >= FailureThreshold

\* C18: a service call whose acquire() returned false returns without having
\* called the remote service.
C18_RejectedNotCalled == last.rejected => last.remote = "none"

\* C19: a service call in which acquire() or get_remaining() raised has called
\* the remote service, and returns a failure only when the remote call failed.
C19_LimiterErrorProceeds ==
  last.err => /\ last.remote # "none"
              /\ last.remote = "ok" => last.result = "ok"

\* C20: an acquire() that returns true finds fewer than max_requests of them
\* granted in the window and one that returns false finds max_requests
\* granted, so at most max_requests return true in one window;
\* get_remaining() returns max_requests less the acquires granted in the
\* window; with max_requests 1 a second acquire() in the window is false.
C20_AtMostMaxPerWindow ==
  [][\A s \in ThirdPartyService :
       /\ limiter'[s].granted <= max_requests(s)
       /\ (Called(reply', "acquire", s) /\ reply'.detail = "true")
            => limiter[s].granted < max_requests(s) /\ limiter'[s].granted = limiter[s].granted + 1
       /\ (Called(reply', "acquire", s) /\ reply'.detail = "false")
            => limiter[s].granted = max_requests(s) /\ limiter'[s] = limiter[s]
       /\ (Called(reply', "get_remaining", s) /\ reply'.detail # "raise")
            => reply'.code = max_requests(s) - limiter[s].granted]_vars

\* the limiter of max_requests 1 granted one acquire() and refused the next,
\* and the limiter of max_requests 2 has granted both
C20_Witness ==
  /\ Called(reply, "acquire", "apollo") /\ reply.detail = "false"
  /\ limiter["apollo"].granted = 1
  /\ limiter["openai"].granted = 2

\* C21: a FETCH_LEADS job whose first attempt ends in a transient failure is
\* not FAILED by it (it is retried), while one whose attempt ends in a
\* validation error is FAILED by it.
C21_TransientRetried ==
  [][\A e \in BagToSet(exec) :
       /\ (fetch_and_save_leads_finish(e, "transient") /\ runs[e.j] = 1)
            => jobs'[e.j].status # "FAILED"
       /\ (fetch_and_save_leads_finish(e, "validation") /\ campaigns[e.c].status = "RUNNING")
            => jobs'[e.j].status = "FAILED"]_vars

\* the ENRICH_LEAD jobs of campaign c
EnrichJobsOf(js, c) == {k \in JobIds : js[k].campaign = c /\ js[k].name = "ENRICH_LEAD"}

\* C22: when the FETCH_LEADS job of a campaign is COMPLETED having fetched N
\* leads, the campaign has exactly N ENRICH_LEAD jobs.
C22_EnrichJobPerLead ==
  \A j \in JobIds :
    (jobs[j].name = "FETCH_LEADS" /\ jobs[j].status = "COMPLETED")
      => Cardinality(EnrichJobsOf(jobs, jobs[j].campaign)) = fetches[j].n

\* the edges of the job status graph
JobEdges ==
  {<<"PENDING", "PROCESSING">>, <<"PROCESSING", "COMPLETED">>, <<"PROCESSING", "FAILED">>,
   <<"PROCESSING", "CANCELLED">>, <<"PROCESSING", "PAUSED">>, <<"PAUSED", "PENDING">>}

\* C23: every job row is created in PENDING, and every later change of its
\* status follows an edge of the job status graph.
C23_JobStatusFollowsGraph ==
  [][\A j \in JobIds :
       /\ (jobs[j] = NoJob /\ jobs'[j] # NoJob) => jobs'[j].status = "PENDING"
       /\ (jobs[j] # NoJob /\ jobs'[j] # NoJob /\ jobs'[j].status # jobs[j].status)
            => <<jobs[j].status, jobs'[j].status>> \in JobEdges]_vars

MovedToPaused == {j \in JobIds : jobs[j].status # PAUSED /\ jobs'[j].status = PAUSED}
\* those of them the opened-event handler of the step did not pause
MovedByBulkPause == {j \in MovedToPaused : campaigns[jobs[j].campaign].status # "RUNNING"}
\* a step that reports a result or pauses a job
Reports == reply' # reply \/ jobs_paused' # jobs_paused \/ MovedToPaused # {}

Deleted == {j \in JobIds : jobs[j] # NoJob /\ jobs'[j] = NoJob}

\* the jobs of campaign c that are COMPLETED or FAILED and older than days
OldTerminal(c, days) ==
  {j \in JobIds : /\ jobs[j].campaign = c
                  /\ jobs[j].status \in {"COMPLETED", "FAILED"}
                  /\ jobs[j].age > days}

\* C26: a cleanup takes every job of its campaign that is COMPLETED or FAILED
\* and older than its cutoff when it reads the table, and the rows it deletes
\* are the rows it took: each a job of its campaign, COMPLETED or FAILED and
\* older than the cutoff when it is deleted; the campaign rows stay as they
\* were.
C26_CleanupDeletesExactly ==
  [][/\ (~cleaning.on /\ cleaning'.on)
          => cleaning'.sel = OldTerminal(cleaning'.c, cleaning'.days)
     /\ (cleaning.on /\ ~cleaning'.on)
          => /\ Deleted = {j \in cleaning.sel : jobs[j] # NoJob}
             /\ Deleted \subseteq OldTerminal(cleaning.c, cleaning.days)
             /\ campaigns' = campaigns
     /\ Deleted # {} => cleaning.on]_vars

\* C27: since the last reset, the indices returned by two calls of
\* get_next_campaign_data have none in common, a call returns at most
\* leads_count indices, and a call that returns none found every record
\* consumed or asked for none.
C27_ReturnedIndicesDisjoint ==
  /\ \A k \in Callers, l \in Callers :
       (k # l /\ mock.call[k].pc = "returned" /\ mock.call[l].pc = "returned")
         => mock.call[k].indices \cap mock.call[l].indices = {}
  /\ \A k \in Callers :
       mock.call[k].pc = "returned"
         => /\ Cardinality(mock.call[k].indices) <= mock.call[k].count
            /\ (mock.call[k].indices = {} /\ mock.call[k].count > 0)
                 => mock.consumed = Records

\* a start_campaign request for c that had committed RUNNING ends in this step
\* with the error of the job creation or of the enqueue
StartFails(c) ==
  /\ reply' = Reply("start_campaign", c, 500, "error")
  /\ \E q \in BagToSet(req) :
       /\ q.c = c
       /\ q.pc \in {"running", "job_created"}
       /\ CopiesIn(q, req') < CopiesIn(q, req)

\* C28: when a start_campaign request fails after it committed RUNNING, the
\* campaign is FAILED with the error recorded at the end of the step.
C28_FailedStartFailsCampaign ==
  [][\A c \in CampaignIds :
       StartFails(c) => campaigns'[c].status = "FAILED" /\ campaigns'[c].status_error]_vars

\* C29: a campaign that is RUNNING is COMPLETED or FAILED at some later time.
C29_RunningEnds ==
  \A c \in CampaignIds :
    (campaigns[c].status = "RUNNING") ~> (campaigns[c].status \in {"COMPLETED", "FAILED"})

\* C30: a FETCH_LEADS job that is COMPLETED was completed with the dataset of
\* a scraper call that was made, and a campaign that is COMPLETED has such a
\* job.
C30_CompletedOnlyWithDataset ==
  /\ \A j \in JobIds :
       (jobs[j].name = "FETCH_LEADS" /\ jobs[j].status = "COMPLETED") => fetches[j].dataset
  /\ \A c \in CampaignIds :
       campaigns[c].status = "COMPLETED" => \E j \in FetchJobsOf(jobs, c) : fetches[j].dataset
====
